---- MODULE Spec2Model ----
(***************************************************************************)
(* Rolling Z-score anomaly detector: class AnomalyDetector of              *)
(* src/anomely_detction.py.                                                *)
(*                                                                         *)
(* update accepts Python ints and floats.  numpy turns a window of floats  *)
(* into a float64 array and computes in IEEE-754 binary64; that arithmetic *)
(* is modelled bit for bit (round to nearest, ties to even) on naturals of *)
(* any size.  A window of ints becomes an int64 array whose sums are       *)
(* exact; its mean, standard deviation and z-score are kept as exact       *)
(* fractions (a standard deviation as the radicand of its square root),    *)
(* which decides every comparison made on the int samples used here the    *)
(* way binary64 does.                                                      *)
(***************************************************************************)
EXTENDS Integers, Sequences, FiniteSets, TLC

\* ----------------------------------------------------------------- bounds
MaxCalls == 5
MaxWindow == 3

Min(a, b) == IF a < b THEN a ELSE b

\* ------------------------------------------------ naturals of any size
\* A natural number as the sequence of its digits in base 2^15, lowest
\* first, without leading zero digits; <<>> is 0.
LimbBits == 15
Base == 2 ^ LimbBits

RECURSIVE BNorm(_)
BNorm(a) ==
    IF a = <<>> THEN a
    ELSE IF a[Len(a)] = 0 THEN BNorm(SubSeq(a, 1, Len(a) - 1)) ELSE a

BFromInt(n) == BNorm(<<n % Base, (n \div Base) % Base, n \div (Base * Base)>>)

Digit(a, i) == IF i >= 1 /\ i <= Len(a) THEN a[i] ELSE 0

RECURSIVE BAddC(_, _, _)
BAddC(a, b, c) ==
    IF a = <<>> /\ b = <<>> THEN (IF c = 0 THEN <<>> ELSE <<c>>)
    ELSE LET t == Digit(a, 1) + Digit(b, 1) + c
         IN  <<t % Base>> \o BAddC(IF a = <<>> THEN a ELSE Tail(a),
                                   IF b = <<>> THEN b ELSE Tail(b), t \div Base)

BAdd(a, b) == BAddC(a, b, 0)

\* a - b for a >= b.
RECURSIVE BSubB(_, _, _)
BSubB(a, b, c) ==
    IF a = <<>> THEN <<>>
    ELSE LET t == Head(a) - Digit(b, 1) - c
         IN  <<IF t < 0 THEN t + Base ELSE t>>
                \o BSubB(Tail(a), IF b = <<>> THEN b ELSE Tail(b), IF t < 0 THEN 1 ELSE 0)

BSub(a, b) == BNorm(BSubB(a, b, 0))

\* -1, 0 or 1 as a < b, a = b or a > b.
RECURSIVE BCmpFrom(_, _, _)
BCmpFrom(a, b, i) ==
    IF i = 0 THEN 0
    ELSE IF a[i] < b[i] THEN -1
    ELSE IF a[i] > b[i] THEN 1
    ELSE BCmpFrom(a, b, i - 1)

BCmp(a, b) ==
    IF Len(a) < Len(b) THEN -1
    ELSE IF Len(a) > Len(b) THEN 1
    ELSE BCmpFrom(a, b, Len(a))

RECURSIVE BMulSmall(_, _, _)
BMulSmall(a, k, c) ==
    IF a = <<>> THEN (IF c = 0 THEN <<>> ELSE <<c>>)
    ELSE LET t == Head(a) * k + c
         IN  <<t % Base>> \o BMulSmall(Tail(a), k, t \div Base)

BShiftDigit(a) == IF a = <<>> THEN a ELSE <<0>> \o a

RECURSIVE BMul(_, _)
BMul(a, b) ==
    IF a = <<>> \/ b = <<>> THEN <<>>
    ELSE BAdd(BNorm(BMulSmall(a, Head(b), 0)), BShiftDigit(BMul(a, Tail(b))))

RECURSIVE BShiftDigits(_, _)
BShiftDigits(a, n) == IF n = 0 THEN a ELSE BShiftDigits(BShiftDigit(a), n - 1)

\* a * 2^k and floor(a / 2^k).
BShl(a, k) == BShiftDigits(BNorm(BMulSmall(a, 2 ^ (k % LimbBits), 0)), k \div LimbBits)

BShr(a, k) ==
    LET n == k \div LimbBits
        r == k % LimbBits
        b == IF n >= Len(a) THEN <<>> ELSE SubSeq(a, n + 1, Len(a))
    IN  BNorm([i \in 1 .. Len(b) |->
                 (b[i] \div 2 ^ r) + (Digit(b, i + 1) % 2 ^ r) * 2 ^ (LimbBits - r)])

\* Bit k of a (bit 0 is the lowest), and whether any bit below k is set.
BBit(a, k) == (Digit(a, k \div LimbBits + 1) \div 2 ^ (k % LimbBits)) % 2

BLowBits(a, k) ==
    \/ \E i \in 1 .. Min(Len(a), k \div LimbBits) : a[i] # 0
    \/ Digit(a, k \div LimbBits + 1) % 2 ^ (k % LimbBits) # 0

RECURSIVE IntBitLen(_)
IntBitLen(n) == IF n = 0 THEN 0 ELSE 1 + IntBitLen(n \div 2)

BBitLen(a) == IF a = <<>> THEN 0 ELSE LimbBits * (Len(a) - 1) + IntBitLen(a[Len(a)])

\* ------------------------------------------------------ exact dyadics
\* sign * man * 2^exp with man any natural: the exact value of a float, of
\* an int, and of their sums and products.  Zero has man = <<>>, sign 1.
Dy(sign, man, exp) == [sign |-> sign, man |-> man, exp |-> exp]
DyZero == Dy(1, <<>>, 0)
DyFromInt(i) ==
    IF i = 0 THEN DyZero
    ELSE Dy(IF i < 0 THEN -1 ELSE 1, BFromInt(IF i < 0 THEN -i ELSE i), 0)
DyNeg(x) == IF x.man = <<>> THEN x ELSE [x EXCEPT !.sign = -x.sign]

DyAdd(x, y) ==
    IF x.man = <<>> THEN y
    ELSE IF y.man = <<>> THEN x
    ELSE LET e == Min(x.exp, y.exp)
             a == BShl(x.man, x.exp - e)
             b == BShl(y.man, y.exp - e)
             c == BCmp(a, b)
         IN  IF x.sign = y.sign THEN Dy(x.sign, BAdd(a, b), e)
             ELSE IF c = 0 THEN DyZero
             ELSE IF c > 0 THEN Dy(x.sign, BSub(a, b), e)
             ELSE Dy(y.sign, BSub(b, a), e)

DyMul(x, y) ==
    IF x.man = <<>> \/ y.man = <<>> THEN DyZero
    ELSE Dy(x.sign * y.sign, BMul(x.man, y.man), x.exp + y.exp)

\* -1, 0 or 1 as x < y, x = y or x > y.
DyCmp(x, y) == LET d == DyAdd(x, DyNeg(y)) IN IF d.man = <<>> THEN 0 ELSE d.sign

\* -------------------------------------------------------------- binary64
\* A float is sign * man * 2^exp with man a natural of exactly MantBits
\* bits, or zero (man = <<>>, sign 1); nan has sign 0.  Subnormals,
\* infinities and the sign of zero play no part in the values computed here.
MantBits == 53
F64(sign, man, exp) == [sign |-> sign, man |-> man, exp |-> exp]
FZero == F64(1, <<>>, 0)
FNaN == F64(0, <<>>, 0)
FIsNaN(x) == x.sign = 0
FIsZero(x) == x.sign # 0 /\ x.man = <<>>

\* sign * (n + f) * 2^e rounded to nearest, ties to even, where 0 <= f < 1
\* and f > 0 iff sticky.
FRound(sign, n, e, sticky) ==
    LET l == BBitLen(n)
    IN  IF l = 0 THEN FZero
        ELSE IF l <= MantBits THEN F64(sign, BShl(n, MantBits - l), e - (MantBits - l))
        ELSE LET k  == l - MantBits
                 q  == BShr(n, k)
                 up == BBit(n, k - 1) = 1
                         /\ (BLowBits(n, k - 1) \/ sticky \/ BBit(q, 0) = 1)
                 r  == IF up THEN BAdd(q, <<1>>) ELSE q
             IN  IF BBitLen(r) > MantBits THEN F64(sign, BShr(r, 1), e + k + 1)
                 ELSE F64(sign, r, e + k)

FRoundDy(x) == FRound(x.sign, x.man, x.exp, FALSE)

FFromInt(i) == FRoundDy(DyFromInt(i))

FAdd(x, y) == IF FIsNaN(x) \/ FIsNaN(y) THEN FNaN ELSE FRoundDy(DyAdd(x, y))

FSub(x, y) == IF FIsNaN(x) \/ FIsNaN(y) THEN FNaN ELSE FRoundDy(DyAdd(x, DyNeg(y)))

FMul(x, y) == IF FIsNaN(x) \/ FIsNaN(y) THEN FNaN ELSE FRoundDy(DyMul(x, y))

\* k more bits of the quotient of r / d (r < d), the quotient so far q.
RECURSIVE DivBits(_, _, _, _)
DivBits(r, d, k, q) ==
    IF k = 0 THEN [q |-> q, r |-> r]
    ELSE LET r2  == BShl(r, 1)
             bit == BCmp(r2, d) >= 0
             r3  == IF bit THEN BSub(r2, d) ELSE r2
             q3  == IF bit THEN BAdd(BShl(q, 1), <<1>>) ELSE BShl(q, 1)
         IN  IF Len(r3) + Len(q3) >= 0 THEN DivBits(r3, d, k - 1, q3)
             ELSE [q |-> q, r |-> r]

\* x / y for y # 0.  (numpy gives nan or inf, with a warning, for y = 0; the
\* one division of update is guarded by "if self.std".)
FDiv(x, y) ==
    IF FIsNaN(x) \/ FIsNaN(y) \/ FIsZero(y) THEN FNaN
    ELSE IF FIsZero(x) THEN FZero
    ELSE LET first == BCmp(x.man, y.man) >= 0
             d == DivBits(IF first THEN BSub(x.man, y.man) ELSE x.man, y.man,
                          MantBits + 2, IF first THEN <<1>> ELSE <<>>)
         IN  FRound(x.sign * y.sign, d.q, x.exp - y.exp - (MantBits + 2), d.r # <<>>)

\* The largest s with s * s <= n, built from bit b down, s the bits so far.
RECURSIVE SqrtBits(_, _, _)
SqrtBits(n, s, b) ==
    IF b < 0 THEN s
    ELSE LET c  == BAdd(s, BShl(<<1>>, b))
             s2 == IF BCmp(BMul(c, c), n) <= 0 THEN c ELSE s
         IN  IF Len(s2) >= 0 THEN SqrtBits(n, s2, b - 1) ELSE s

FSqrt(x) ==
    IF FIsNaN(x) \/ x.sign < 0 THEN FNaN
    ELSE IF FIsZero(x) THEN FZero
    ELSE LET k == MantBits + 4 + ((x.exp - MantBits) % 2)
             n == BShl(x.man, k)
             s == SqrtBits(n, <<>>, MantBits + 3)
         IN  FRound(1, s, (x.exp - k) \div 2, BCmp(BMul(s, s), n) # 0)

\* The floats Python reads from the literals 0.1 and 0.3:
\* 0x1.999999999999ap-4 and 0x1.3333333333333p-2.
F0_1 == F64(1, <<6554, 13107, 26214, 204>>, -56)
F0_3 == F64(1, <<13107, 26214, 19660, 153>>, -54)

\* --------------------------------------------------------------- samples
\* Sample values, window sizes and thresholds offered to the detector.
Values == {0, 10, 100}
WindowSizes == (-1) .. MaxWindow

\* A fraction num/den with den > 0; den = 0 is numpy's nan.
Rat(n, d) == [num |-> n, den |-> d]
NaN == Rat(0, 0)
IsNaN(q) == q.den = 0

Thresholds == {Rat(-1, 1), Rat(0, 1), Rat(1, 2), Rat(1, 1), Rat(3, 2), Rat(2, 1)}

\* Inputs of update: ints, floats, and one value that is no number.
Int_(v) == [type |-> "int", val |-> v]
Float_(f) == [type |-> "float", val |-> f]
NotANumber == [type |-> "str", val |-> 0]
Inputs == {Int_(v) : v \in Values} \cup {NotANumber}
FloatInputs == {Float_(F0_1), Float_(F0_3)}
FloatWindowSizes == {2, 3}
FloatThresholds == {Rat(1, 2), Rat(1, 1)}

\* ------------------------------------------------------ numpy statistics
\* np.asarray of the deque: int64 when every sample is an int, else float64.
IsIntArray(w) == \A i \in 1 .. Len(w) : w[i].type = "int"
Vals(w) == [i \in 1 .. Len(w) |-> w[i].val]
AsF64(x) == IF x.type = "int" THEN FFromInt(x.val) ELSE x.val
Floats(w) == [i \in 1 .. Len(w) |-> AsF64(w[i])]
IsF64(v) == "man" \in DOMAIN v

RECURSIVE Sum(_)
Sum(s) == IF s = <<>> THEN 0 ELSE Head(s) + Sum(Tail(s))

\* The sum of (n*x - total)^2 over the window: n^2 times the sum of the
\* squared deviations from the mean total/n.
RECURSIVE SumSqDev(_, _, _)
SumSqDev(s, n, total) ==
    IF s = <<>> THEN 0
    ELSE (n * Head(s) - total) * (n * Head(s) - total) + SumSqDev(Tail(s), n, total)

\* np.add.reduce of a float64 array of fewer than 8 elements: the elements
\* are added one by one, left to right, starting from 0.0.
RECURSIVE FSum(_, _)
FSum(s, acc) ==
    IF s = <<>> THEN acc
    ELSE LET a == FAdd(acc, Head(s)) IN IF Len(a.man) >= 0 THEN FSum(Tail(s), a) ELSE a

\* The mean of the window without its newest element.
np_mean_prior(w) ==
    IF Len(w) <= 1 THEN NaN
    ELSE Rat(Sum(Vals(SubSeq(w, 1, Len(w) - 1))), Len(w) - 1)

\* np.mean of the window: sum / len; nan (with a warning) on an empty one.
np_mean(w) ==
    IF Len(w) = 0 THEN NaN
    ELSE IF IsIntArray(w) THEN Rat(Sum(Vals(w)), Len(w))
    ELSE FDiv(FSum(Floats(w), FZero), FFromInt(Len(w)))

\* np.std of the window (ddof = 0): sqrt(mean(|x - mean|^2)).  On ints, the
\* radicand sum((n*x - total)^2) / n^3.
np_std(w) ==
    IF Len(w) = 0 THEN [rad |-> NaN]
    ELSE IF IsIntArray(w)
    THEN [rad |-> Rat(SumSqDev(Vals(w), Len(w), Sum(Vals(w))),
                      Len(w) * Len(w) * Len(w))]
    ELSE LET m  == FDiv(FSum(Floats(w), FZero), FFromInt(Len(w)))
             x  == [i \in 1 .. Len(w) |-> FSub(AsF64(w[i]), m)]
             sq == [i \in 1 .. Len(w) |-> FMul(x[i], x[i])]
         IN  FSqrt(FDiv(FSum(sq, FZero), FFromInt(Len(w))))

\* Python truth value of a float: false only for zero (nan is true).
Truthy(std) ==
    IF IsF64(std) THEN ~FIsZero(std)
    ELSE IsNaN(std.rad) \/ std.rad.num # 0

Sign(i) == IF i > 0 THEN 1 ELSE IF i < 0 THEN -1 ELSE 0

\* z_score = (new_value - self.mean) / self.std if self.std else 0.  On
\* ints, the square of its absolute value (a fraction; nan when mean or std
\* is nan) and its sign.
ZScore(x, mean, std) ==
    IF IsF64(std)
    THEN IF Truthy(std) THEN FDiv(FSub(AsF64(x), mean), std) ELSE FZero
    ELSE IF ~Truthy(std) THEN [sq |-> Rat(0, 1), sgn |-> 0]
    ELSE IF IsNaN(mean) \/ IsNaN(std.rad) THEN [sq |-> NaN, sgn |-> 0]
    ELSE LET a == x.val * mean.den - mean.num
         IN  [sq  |-> Rat(a * a * std.rad.den, mean.den * mean.den * std.rad.num),
              sgn |-> Sign(a)]

\* abs(z_score) < self.z_threshold.
ExceedsBelow(z, t) ==
    /\ ~IsNaN(z.sq)
    /\ t.num > 0
    /\ z.sq.num * t.den * t.den < t.num * t.num * z.sq.den

\* abs(z_score) > self.z_threshold; every comparison with nan is false.
Exceeds(z, t) ==
    IF IsF64(z)
    THEN /\ ~FIsNaN(z)
         /\ DyCmp(DyMul(Dy(1, z.man, z.exp), DyFromInt(t.den)), DyFromInt(t.num)) > 0
    ELSE /\ ~IsNaN(z.sq)
         /\ \/ t.num < 0
            \/ z.sq.num * t.den * t.den > t.num * t.num * z.sq.den

\* deque.append without a maxlen.
DequeAppendNoEvict(w, v, maxlen) == Append(w, v)

\* deque(maxlen).append: push on the right, drop from the left when over
\* capacity.
DequeAppend(w, v, maxlen) ==
    LET a == Append(w, v) IN IF Len(a) > maxlen THEN Tail(a) ELSE a

\* ------------------------------------------------------------- detector
\* A constructor that refuses a window size that is not positive.
RejectsNonPositive(window_size) == window_size <= 0

\* deque(maxlen = window_size) raises ValueError for a negative maxlen; the
\* constructor checks nothing itself.
DequeRaises(window_size) == window_size < 0

\* AnomalyDetector.__init__
AnomalyDetector(window_size, z_threshold) ==
    [window_size |-> window_size,
     z_threshold |-> z_threshold,
     data_window |-> <<>>,
     mean        |-> Rat(0, 1),
     std         |-> [rad |-> Rat(0, 1)]]

\* isinstance(new_value, (float, int))
IsNumeric(x) == x.type \in {"int", "float"}

\* The outcome of a call: the value returned, whether an exception left the
\* call, and whether "Error in AnomalyDetector: ..." was printed.
Returned(b) == [ret |-> b, raised |-> FALSE, printed |-> FALSE]

\* A handler that prints and raises again.
HandlerReraises == [ret |-> FALSE, raised |-> TRUE, printed |-> TRUE]

\* except Exception as e: print(...); return False
Handled == [ret |-> FALSE, raised |-> FALSE, printed |-> TRUE]

\* len(self.data_window) <= self.window_size
IsFullOrLess(w, window_size) == Len(w) <= window_size

\* len(self.data_window) == self.window_size
IsFull(w, window_size) == Len(w) = window_size

\* The body of update from the append on.
Judge(self, x) ==
    LET w == DequeAppend(self.data_window, x, self.window_size)
    IN  IF IsFull(w, self.window_size)
        THEN LET m == np_mean(w)
                 s == np_std(w)
             IN  [self |-> [self EXCEPT !.data_window = w, !.mean = m, !.std = s],
                  out  |-> Returned(Exceeds(ZScore(x, m, s), self.z_threshold))]
        ELSE [self |-> [self EXCEPT !.data_window = w],
              out  |-> Returned(FALSE)]

\* An update that appends before it checks the type.
updateAppendsFirst(self, x) ==
    IF ~IsNumeric(x)
    THEN [self |-> [self EXCEPT !.data_window =
                        DequeAppend(self.data_window, x, self.window_size)],
          out  |-> Handled]
    ELSE Judge(self, x)

\* AnomalyDetector.update: the detector after the call and the outcome.  The
\* ValueError of the type check is raised and caught inside the method.
update(self, x) ==
    IF ~IsNumeric(x) THEN [self |-> self, out |-> Handled]
    ELSE Judge(self, x)

\* ---------------------------------------------------------------- state
VARIABLES
    phase,    \* "new": no constructor call yet; "ready"; "failed": it raised
    args,     \* the arguments the constructor was called with
    self,     \* the detector
    log,      \* the update calls so far: input and outcome of each
    other,    \* a second detector fed in lockstep (SpecPair)
    otherlog  \* the calls of the second detector

vars == <<phase, args, self, log, other, otherlog>>

NoArgs == [window_size |-> 0, z_threshold |-> Rat(0, 1)]
NoDetector == AnomalyDetector(0, Rat(0, 1))

Init ==
    /\ phase = "new"
    /\ args = NoArgs
    /\ self = NoDetector
    /\ log = <<>>
    /\ other = NoDetector
    /\ otherlog = <<>>

\* detector = AnomalyDetector(window_size, z_threshold)
Construct(window_size, z_threshold) ==
    /\ phase = "new"
    /\ args' = [window_size |-> window_size, z_threshold |-> z_threshold]
    /\ IF DequeRaises(window_size)
       THEN phase' = "failed" /\ self' = self
       ELSE phase' = "ready" /\ self' = AnomalyDetector(window_size, z_threshold)
    /\ UNCHANGED <<log, other, otherlog>>

\* detector.update(x)
Update(x) ==
    /\ phase = "ready"
    /\ Len(log) < MaxCalls
    /\ \E r \in {update(self, x)} :
           /\ self' = r.self
           /\ log' = Append(log, [x |-> x, out |-> r.out])
    /\ UNCHANGED <<phase, args, other, otherlog>>

Next ==
    \/ \E w \in WindowSizes, t \in Thresholds : Construct(w, t)
    \/ \E x \in Inputs : Update(x)

\* A detector constructed with any arguments and fed ints and values that
\* are no numbers.
Spec == Init /\ [][Next]_vars

\* Two detectors of one window size, the first with the smaller threshold,
\* fed the same values in lockstep.
InitPair ==
    /\ phase = "ready"
    /\ \E w \in 1 .. MaxWindow, t1 \in Thresholds, t2 \in Thresholds :
          /\ t1.num * t2.den <= t2.num * t1.den
          /\ args = [window_size |-> w, z_threshold |-> t1]
          /\ self = AnomalyDetector(w, t1)
          /\ other = AnomalyDetector(w, t2)
    /\ log = <<>>
    /\ otherlog = <<>>

UpdatePair(x) ==
    /\ Len(log) < MaxCalls
    /\ \E r \in {update(self, x)}, q \in {update(other, x)} :
           /\ self' = r.self
           /\ other' = q.self
           /\ log' = Append(log, [x |-> x, out |-> r.out])
           /\ otherlog' = Append(otherlog, [x |-> x, out |-> q.out])
    /\ UNCHANGED <<phase, args>>

NextPair == \E v \in Values : UpdatePair(Int_(v))

SpecPair == InitPair /\ [][NextPair]_vars

\* A detector with a positive window size and threshold, fed floats.
InitFloat ==
    /\ phase = "ready"
    /\ \E w \in FloatWindowSizes, t \in FloatThresholds :
          /\ args = [window_size |-> w, z_threshold |-> t]
          /\ self = AnomalyDetector(w, t)
    /\ log = <<>>
    /\ other = NoDetector
    /\ otherlog = <<>>

NextFloat == \E x \in FloatInputs : Update(x)

SpecFloat == InitFloat /\ [][NextFloat]_vars

\* ------------------------------------------------------- history helpers
\* The last n elements of s.
LastN(s, n) == SubSeq(s, Len(s) - n + 1, Len(s))

\* The inputs of the calls so far, and those that were numeric, in order.
InputsOf(l) == [i \in 1 .. Len(l) |-> l[i].x]
NumericCalls(l) == SelectSeq(l, LAMBDA c : IsNumeric(c.x))
Accepted == InputsOf(NumericCalls(log))

\* The exact value of a sample, as a dyadic number.
Exact(x) == IF x.type = "int" THEN DyFromInt(x.val) ELSE Dy(x.val.sign, x.val.man, x.val.exp)

RECURSIVE DySum(_)
DySum(s) == IF s = <<>> THEN DyZero ELSE DyAdd(Head(s), DySum(Tail(s)))

IsFlat(w) == \A i \in 1 .. Len(w) : w[i] = w[1]

\* The z-test in exact arithmetic on the samples xs, the last one being the
\* value judged: (W*value - sum)^2 * den^2 > num^2 * (W*sumOfSquares - sum^2)
\* for the threshold num/den.
ExactZTest(xs, t) ==
    LET W   == DyFromInt(Len(xs))
        e   == [i \in 1 .. Len(xs) |-> Exact(xs[i])]
        s   == DySum(e)
        ssq == DySum([i \in 1 .. Len(xs) |-> DyMul(e[i], e[i])])
        d   == DyAdd(DyMul(W, e[Len(xs)]), DyNeg(s))
        lhs == DyMul(DyMul(d, d), DyFromInt(t.den * t.den))
        rhs == DyMul(DyFromInt(t.num * t.num),
                     DyAdd(DyMul(W, ssq), DyNeg(DyMul(s, s))))
    IN  DyCmp(lhs, rhs) > 0

\* A fresh detector fed the sequence of inputs xs: the detector reached and
\* the outcomes of the calls.
RECURSIVE Run(_, _, _)
Run(d, outs, xs) ==
    IF xs = <<>> THEN [self |-> d, outs |-> outs]
    ELSE LET r == update(d, Head(xs))
         IN  Run(r.self, Append(outs, r.out), Tail(xs))

\* The last call was numeric and left a full window, on a detector with
\* window size >= 1 and threshold > 0.
JudgedAtFullWindow ==
    /\ phase = "ready" /\ log # <<>> /\ IsNumeric(log[Len(log)].x)
    /\ self.window_size >= 1 /\ self.z_threshold.num > 0
    /\ Len(Accepted) >= self.window_size

\* ---------------------------------------------------------------- claims

\* C1: whenever the window is full after the append (W >= 1, T > 0), update
\* returns True iff the z-score of the new value against the window that
\* includes it exceeds T: (W*value - sum)^2 > T^2 * (W*sumOfSquares - sum^2),
\* the sums taken in exact arithmetic over the last W accepted values.
C1_VerdictIsZTest ==
    JudgedAtFullWindow
    => (log[Len(log)].out.ret
          <=> ExactZTest(LastN(Accepted, self.window_size), self.z_threshold))

\* C2: warm-up.  On a fresh detector with window size W each of the first
\* W-1 calls of update returns False, whatever the value.
C2_WarmUpReturnsFalse ==
    phase = "ready" =>
        \A i \in 1 .. Len(log) :
            i < self.window_size => (log[i].out.ret = FALSE /\ ~log[i].out.raised)

\* C2 witness: two extreme values fed to a detector of window size 3.
C2_Witness ==
    /\ phase = "ready" /\ self.window_size = 3 /\ self.z_threshold = Rat(1, 2)
    /\ Len(log) = 2 /\ log[1].x = Int_(0) /\ log[2].x = Int_(100)

\* C3: the window never holds more than W values; after k accepted calls it
\* holds exactly the last min(k, W) accepted values in arrival order.
C3_WindowIsLastAccepted ==
    phase = "ready" =>
        /\ Len(self.data_window) <= self.window_size
        /\ Len(self.data_window) = Min(Len(Accepted), self.window_size)
        /\ self.data_window = LastN(Accepted, Min(Len(Accepted), self.window_size))

\* C3 witness: a full window of size 2 after a third accepted value evicted
\* the oldest one.
C3_Witness ==
    /\ phase = "ready" /\ self.window_size = 2
    /\ Accepted = <<Int_(0), Int_(10), Int_(100)>>
    /\ self.data_window = <<Int_(10), Int_(100)>>

C5_RejectedLeavesNoTrace ==
    phase = "ready" =>
        LET r == Run(AnomalyDetector(args.window_size, args.z_threshold), <<>>, Accepted)
        IN  /\ self = r.self
            /\ [i \in 1 .. Len(NumericCalls(log)) |-> NumericCalls(log)[i].out] = r.outs

\* C5 witness: a value rejected during warm-up and another at a full window,
\* each followed by accepted values, the last one flagged.
C5_Witness ==
    /\ phase = "ready" /\ self.window_size = 2 /\ Len(log) = 5
    /\ log[1].x = NotANumber /\ IsNumeric(log[2].x) /\ IsNumeric(log[3].x)
    /\ log[4].x = NotANumber /\ IsNumeric(log[5].x) /\ log[5].out.ret = TRUE

C7_FlatNeverFlags ==
    (JudgedAtFullWindow /\ IsFlat(self.data_window))
    => (~Truthy(self.std) /\ log[Len(log)].out.ret = FALSE)

\* C8: of two detectors with one window size fed the same values, the one
\* with the larger threshold flags only what the other flags too, and the
\* two windows stay equal.
C8_ThresholdMonotone ==
    (self.z_threshold.num * other.z_threshold.den
        <= other.z_threshold.num * self.z_threshold.den)
    => /\ self.data_window = other.data_window
       /\ \A i \in 1 .. Len(log) : otherlog[i].out.ret => log[i].out.ret

\* C8 witness: a value the detector with threshold 1/2 flags and the one
\* with threshold 3/2 does not.
C8_Witness ==
    /\ self.z_threshold = Rat(1, 2) /\ other.z_threshold = Rat(3, 2)
    /\ log # <<>> /\ log[Len(log)].out.ret = TRUE
    /\ otherlog[Len(log)].out.ret = FALSE

\* The scenario of C9: window size 3, threshold 1.5, fed xs.
C9_Fed(xs) ==
    /\ phase = "ready" /\ self.window_size = 3 /\ self.z_threshold = Rat(3, 2)
    /\ InputsOf(log) = xs

\* C9 as stated: after 10, 10, 10 the value 10 is not flagged and the value
\* 100 is.
C9_Original ==
    /\ C9_Fed(<<Int_(10), Int_(10), Int_(10), Int_(10)>>) => log[4].out.ret = FALSE
    /\ C9_Fed(<<Int_(10), Int_(10), Int_(10), Int_(100)>>) => log[4].out.ret = TRUE

\* C9 as amended: neither is flagged.  With 100 the window is [10, 10, 100]:
\* mean 40, stddev sqrt(1800), z = 60 / sqrt(1800) = sqrt(2) < 1.5.
C9_NeitherIsFlagged ==
    /\ C9_Fed(<<Int_(10), Int_(10), Int_(10), Int_(10)>>) => log[4].out.ret = FALSE
    /\ C9_Fed(<<Int_(10), Int_(10), Int_(10), Int_(100)>>)
          => /\ log[4].out.ret = FALSE
             /\ self.mean = Rat(120, 3)
             /\ self.std = [rad |-> Rat(48600, 27)]

\* C9 witness: the second scenario has run.
C9_Witness == C9_Fed(<<Int_(10), Int_(10), Int_(10), Int_(100)>>)

\* C10: sensitivity ceiling.  A detector with threshold T > 0 and
\* T^2 >= W - 1 returns False from every call of update.
C10_CeilingNeverFlags ==
    (/\ phase = "ready" /\ self.window_size >= 1 /\ self.z_threshold.num > 0
     /\ self.z_threshold.num * self.z_threshold.num
          >= (self.window_size - 1) * self.z_threshold.den * self.z_threshold.den)
    => \A i \in 1 .. Len(log) : log[i].out.ret = FALSE

====
